---- MODULE Spec2Model ----
(***************************************************************************)
(* Training-loop state machine of textbox/trainer/trainer.py: the base     *)
(* Trainer (fit, _train_epoch, _valid_epoch, _save_checkpoint,             *)
(* resume_checkpoint, evaluate) and the adversarial trainers.              *)
(*                                                                         *)
(* Losses are IEEE-754 values abstracted as extended rationals: a finite   *)
(* value n/d in lowest terms, NaN, +infinity or -infinity.  Model          *)
(* parameters and optimizer state are abstracted to the number of          *)
(* optimizer steps applied to them, so two parameter states are equal iff  *)
(* the same number of updates produced them.                               *)
(***************************************************************************)
EXTENDS Integers, Sequences, FiniteSets, TLC

\* ------------------------------------------------------------------ bounds
MaxEpochs == 5
MaxBatches == 2
MaxStoppingStep == 2
MaxEvalStep == 2
MaxPhaseEpochs == 1
MaxAdvEpochs == 2
MaxUpper == 2
MaxSuffix == 1
MaxArity == 2
MaxDEpochs == 2
MaxRunEpochs == 3
MaxRunBatches == 1
MaxRunDBatches == 2
MaxRunDEpochs == 1

\* ------------------------------------------------------- extended numbers
RECURSIVE GCD(_, _)
GCD(a, b) == IF b = 0 THEN a ELSE GCD(b, a % b)

Abs(x) == IF x < 0 THEN -x ELSE x

Min(a, b) == IF a < b THEN a ELSE b

\* the finite value n/d (d > 0), in lowest terms
Fin(n, d) ==
    LET g == GCD(Abs(n), d)
    IN  [t |-> "fin", n |-> n \div g, d |-> d \div g]

NaN == [t |-> "nan", n |-> 0, d |-> 1]
PosInf == [t |-> "pinf", n |-> 0, d |-> 1]
NegInf == [t |-> "ninf", n |-> 0, d |-> 1]

IsNaN(x) == x.t = "nan"
IsFinite(x) == x.t = "fin"

\* float addition: total_loss + losses.item()
Add(a, b) ==
    CASE a.t = "nan" \/ b.t = "nan" -> NaN
      [] a.t = "pinf" /\ b.t = "ninf" -> NaN
      [] a.t = "ninf" /\ b.t = "pinf" -> NaN
      [] a.t = "pinf" \/ b.t = "pinf" -> PosInf
      [] a.t = "ninf" \/ b.t = "ninf" -> NegInf
      [] OTHER -> Fin(a.n * b.d + b.n * a.d, a.d * b.d)

\* float division by a positive count: total_loss / len(data)
DivBy(a, k) == IF a.t = "fin" THEN Fin(a.n, a.d * k) ELSE a

\* float comparison a < b (false whenever an operand is NaN)
Less(a, b) ==
    CASE a.t = "nan" \/ b.t = "nan" -> FALSE
      [] a.t = "pinf" -> FALSE
      [] b.t = "ninf" -> FALSE
      [] a.t = "ninf" -> TRUE
      [] b.t = "pinf" -> TRUE
      [] OTHER -> a.n * b.d < b.n * a.d

\* ------------------------------------------------------------------ state
VARIABLES
    cfg,                \* config and the arguments of fit (fixed for a run)
    gen,                \* which trainer instance is live; it owns saved_model_file number gen
    resumed,            \* resume_checkpoint has been called on the live trainer
    files,              \* checkpoint directory: saved_model_file number -> checkpoint
    start_epoch, cur_step, best_valid_score, best_valid_result,
    params,             \* model.state_dict(): updates applied per (sub-)network
    opt,                \* state of each optimizer handle: steps taken
    pc, error,          \* position in fit / evaluate, and the exception that ended it
    epoch_idx, batch_idx,
    valid_total,        \* local total_loss of _valid_epoch
    last_loss,          \* combined loss of the step just executed (local `loss`)
    ret,                \* value returned by fit
    trace,              \* events of the live trainer's fit, in program order
    best_params,        \* parameters at the validation point that set best_valid_score
    script_ok,          \* the validation scores of this fit so far follow Script
    gan,                \* loop counters of the adversarial fit
    built,              \* the last optimizer built: learner string, module, result
    ep                  \* the epoch routine under way: its inputs, locals and steps

vars == <<cfg, gen, resumed, files, start_epoch, cur_step, best_valid_score,
          best_valid_result, params, opt, pc, error, epoch_idx, batch_idx,
          valid_total, last_loss, ret, trace, best_params, script_ok, gan, built, ep>>

Trainers == {1, 2}

BaseKinds == {"Trainer"}
PairedKinds == {"GANTrainer", "RankGANTrainer"}
GanKinds == PairedKinds \cup {"TextGANTrainer", "MaskGANTrainer"}
IsBase == cfg.kind \in BaseKinds
IsGan == cfg.kind \in GanKinds

\* mutant: the best score starts at 0
SentinelZero == [t |-> "fin", n |-> 0, d |-> 1]

\* self.best_valid_score = 100000000
Sentinel == Fin(100000000, 1)
Zero == Fin(0, 1)

\* best_valid_result: None, or the perplexity exp(valid_loss), kept as its argument
NoResult == [some |-> FALSE, of |-> Zero]
Ppl(loss) == [some |-> TRUE, of |-> loss]

NoRet == [set |-> FALSE, score |-> Zero, result |-> NoResult]
Ret(score, result) == [set |-> TRUE, score |-> score, result |-> result]

NoParams == [m |-> 0, g |-> 0, d |-> 0]
NoOpt == [optimizer |-> 0, g_optimizer |-> 0, d_optimizer |-> 0]

\* the optimizer handles a trainer of a kind holds after __init__
Owned(kind) ==
    IF kind \in BaseKinds THEN {"optimizer"} ELSE {"g_optimizer", "d_optimizer"}

\* adv: the adversarial phase has begun; d_epoch: index in
\* range(adversarail_d_epochs); pass: index in
\* range(d_sample_training_epochs); count: optimizer steps of the running
\* epoch routine (0 = its total_loss is still None); k: generator steps of the
\* running adversarial epoch
NoGan == [adv |-> FALSE, d_epoch |-> 0, pass |-> 0, count |-> 0, k |-> 0]

\* no optimizer built yet; learner holds the string to build from
NoBuilt == [set |-> FALSE, learner |-> <<>>, module |-> "", result |-> <<>>,
            warned |-> FALSE]

\* total_loss = None
NoTotal == [some |-> FALSE, tuple |-> FALSE, parts |-> <<>>]

\* no epoch routine is running
NoEp == [routine |-> "none", kind |-> "", leak |-> FALSE, n |-> 0, arity |-> 0,
         adv_d |-> 0, e |-> 0, pc |-> "idle", error |-> "none", i |-> 0, j |-> 0,
         dpos |-> 0, total |-> NoTotal, g_total |-> NoTotal, c_total |-> NoTotal,
         g_num |-> 0, d_num |-> 0, log |-> <<>>, result |-> <<>>, hist |-> <<>>]

NoCkpt == [exists |-> FALSE, model |-> "", epoch |-> 0, cur_step |-> 0,
           best_valid_score |-> Zero, state_dict |-> NoParams, optimizer |-> {}]

\* an event: "train" (_train_epoch returned), "save" (_save_checkpoint),
\* "valid" (_valid_epoch returned), "check" (early_stopping returned, flag =
\* update_flag), "stop" (the break), "load" (evaluate loaded file e, flag =
\* model_file was None); of an adversarial fit: "g_step", "d_step", "c_step"
\* (one _optimize_step on the generator, the discriminator, the critic loss),
\* "d_pass" (_d_train_epoch returned), flag = the adversarial phase has begun
Ev(name, e) == [ev |-> name, e |-> e, flag |-> FALSE]
EvF(name, e, flag) == [ev |-> name, e |-> e, flag |-> flag]

\* the validation scores of the early-stopping scenario, in order
Script == <<Fin(10, 1), Fin(9, 1), Fin(9, 1), Fin(9, 1)>>

Count(tr, name) == Cardinality({i \in 1..Len(tr) : tr[i].ev = name})

\* losses a training batch / a validation batch can produce
TrainLosses == {Fin(1, 1), NaN, PosInf, NegInf}
ValidLosses == {Fin(9, 1), Fin(10, 1), NaN, PosInf}

\* n_train = len(train_data), n_valid = len(valid_data) (0: None or empty),
\* n_real = len(real_dataloader), n_fake = len(fake_dataloader); g_tuple,
\* d_tuple: the generator / discriminator loss functions return a tuple of
\* loss parts instead of a scalar
BaseConfigs ==
    [kind : BaseKinds,
     epochs : 0..MaxEpochs,
     eval_step : 0..MaxEvalStep,
     stopping_step : 0..MaxStoppingStep,
     n_train : 1..MaxBatches,
     n_valid : 0..MaxBatches,
     saved : BOOLEAN,
     g_pretraining_epochs : {0},
     d_pretraining_epochs : {0},
     d_sample_training_epochs : {0},
     adversarail_training_epochs : {0},
     adversarail_d_epochs : {0},
     n_real : {0},
     n_fake : {0},
     g_tuple : {FALSE},
     d_tuple : {FALSE}]

\* fit of an adversarial trainer reads none of epochs, eval_step,
\* stopping_step, valid_data and saved
GanConfigs ==
    [kind : GanKinds,
     epochs : {1},
     eval_step : {1},
     stopping_step : {0},
     n_train : 1..MaxBatches,
     n_valid : {0},
     saved : {TRUE},
     g_pretraining_epochs : 0..MaxPhaseEpochs,
     d_pretraining_epochs : 0..MaxPhaseEpochs,
     d_sample_training_epochs : 0..MaxPhaseEpochs,
     adversarail_training_epochs : 0..MaxAdvEpochs,
     adversarail_d_epochs : 0..MaxPhaseEpochs,
     n_real : 0..MaxBatches,
     n_fake : 0..MaxBatches,
     g_tuple : BOOLEAN,
     d_tuple : BOOLEAN]

\* a trainer gets no dataloader and no setting it never reads:
\* TextGANTrainer reads no fake dataloader, MaskGANTrainer only train_data,
\* and the other variants read train_data in the generator pretraining only;
\* tuple-valued losses are given to one module at a time
Configs ==
    BaseConfigs \cup
    {c \in GanConfigs :
        /\ ~(c.g_tuple /\ c.d_tuple)
        /\ (c.kind # "MaskGANTrainer" /\ c.g_pretraining_epochs = 0) => c.n_train = 1
        /\ c.kind = "TextGANTrainer" => c.n_fake = 0
        /\ c.kind = "MaskGANTrainer" =>
              c.n_fake = 0 /\ c.n_real = 0 /\ c.d_sample_training_epochs = 0}

\* self.eval_step = min(config['eval_step'], self.epochs)
EvalStep == Min(cfg.eval_step, cfg.epochs)

\* Trainer.__init__: the training state of a freshly constructed trainer
InitTrainer ==
    /\ resumed = FALSE
    /\ start_epoch = 0
    /\ cur_step = 0
    /\ best_valid_score = Sentinel
    /\ best_valid_result = NoResult
    /\ params = NoParams
    /\ opt = NoOpt
    /\ pc = "idle"
    /\ error = "none"
    /\ epoch_idx = 0
    /\ batch_idx = 0
    /\ valid_total = Zero
    /\ last_loss = Zero
    /\ ret = NoRet
    /\ trace = <<>>
    /\ best_params = NoParams
    /\ script_ok = TRUE
    /\ gan = NoGan

Init ==
    /\ cfg \in Configs
    /\ gen = 1
    /\ files = [f \in Trainers |-> NoCkpt]
    /\ InitTrainer
    /\ built = NoBuilt
    /\ ep = NoEp

\* --------------------------------------------------------- pure functions
\* mutant: the check never raises
CheckNanNever(loss) == FALSE

\* mutant: the check raises on every non-finite loss
CheckNonFinite(loss) == ~IsFinite(loss)

\* Trainer._check_nan: raises iff torch.isnan(loss)
CheckNan(loss) == IsNaN(loss)

\* utils.early_stopping(value, best, cur_step, max_step, bigger)
EarlyStopping(value, best, cur, max_step, bigger) ==
    LET improved == IF bigger THEN Less(best, value) ELSE Less(value, best)
        ncur == IF improved THEN 0 ELSE cur + 1
    IN  [best |-> IF improved THEN value ELSE best,
         cur_step |-> ncur,
         stop_flag |-> (ncur >= max_step /\ max_step > 0),
         update_flag |-> improved]

\* Trainer._save_checkpoint: the state dictionary written to saved_model_file
SaveCheckpoint(epoch, cs, bvs) ==
    [exists |-> TRUE, model |-> cfg.kind, epoch |-> epoch, cur_step |-> cs,
     best_valid_score |-> bvs, state_dict |-> params,
     optimizer |-> {<<"optimizer", opt.optimizer>>}]

\* ------------------------------------------------------ optimizer building
\* a learner string is a sequence of characters
Lowers == <<"a", "d", "m", "s", "g", "r", "p", "o", "w">>
Uppers == <<"A", "D", "M", "S", "G", "R", "P", "O", "W">>

\* str.lower and str.upper on one character (a digit has no case)
ToLower(c) ==
    IF \E i \in 1..Len(Uppers) : Uppers[i] = c
    THEN Lowers[CHOOSE i \in 1..Len(Uppers) : Uppers[i] = c]
    ELSE c
ToUpper(c) ==
    IF \E i \in 1..Len(Lowers) : Lowers[i] = c
    THEN Uppers[CHOOSE i \in 1..Len(Lowers) : Lowers[i] = c]
    ELSE c

\* self.learner.lower()
StrLower(w) == [i \in 1..Len(w) |-> ToLower(w[i])]

Adam == <<"a", "d", "a", "m">>
Sgd == <<"s", "g", "d">>
Adagrad == <<"a", "d", "a", "g", "r", "a", "d">>
Rmsprop == <<"r", "m", "s", "p", "r", "o", "p">>

\* the learner strings tried: a recognized name or nothing, followed by up to
\* MaxSuffix more characters, with up to MaxUpper characters in upper case
RECURSIVE Suffixes(_)
Suffixes(k) ==
    IF k = 0 THEN {<<>>}
    ELSE Suffixes(k - 1) \cup
         {Append(x, c) : x \in {y \in Suffixes(k - 1) : Len(y) = k - 1}, c \in {"w", "1"}}
WithUpper(w, S) == [i \in 1..Len(w) |-> IF i \in S THEN ToUpper(w[i]) ELSE w[i]]
LearnerStrings ==
    {WithUpper(stem \o sfx, S) :
        stem \in {<<>>, Adam, Sgd, Adagrad, Rmsprop},
        sfx \in Suffixes(MaxSuffix),
        S \in {T \in SUBSET (1..(Len(Rmsprop) + MaxSuffix)) : Cardinality(T) <= MaxUpper}}

\* mutant: an unrecognized learner is an error
OptimClassStrict(learner) ==
    LET l == StrLower(learner)
    IN  IF l = Adam THEN [class |-> "Adam", warned |-> FALSE]
        ELSE IF l = Sgd THEN [class |-> "SGD", warned |-> FALSE]
        ELSE IF l = Adagrad THEN [class |-> "Adagrad", warned |-> FALSE]
        ELSE IF l = Rmsprop THEN [class |-> "RMSprop", warned |-> FALSE]
        ELSE [class |-> "ValueError", warned |-> FALSE]

\* the if/elif chain on self.learner.lower() shared by _build_optimizer and
\* _build_module_optimizer: the optimizer class, and whether the warning
\* 'Received unrecognized optimizer, set default Adam optimizer' is logged
OptimClass(learner) ==
    LET l == StrLower(learner)
    IN  IF l = Adam THEN [class |-> "Adam", warned |-> FALSE]
        ELSE IF l = Sgd THEN [class |-> "SGD", warned |-> FALSE]
        ELSE IF l = Adagrad THEN [class |-> "Adagrad", warned |-> FALSE]
        ELSE IF l = Rmsprop THEN [class |-> "RMSprop", warned |-> FALSE]
        ELSE [class |-> "Adam", warned |-> TRUE]

\* variables the optimizer builders leave alone
BuildFrame ==
    UNCHANGED <<cfg, gen, resumed, files, start_epoch, cur_step, best_valid_score,
                best_valid_result, params, opt, pc, error, epoch_idx, batch_idx,
                valid_total, last_loss, ret, trace, best_params, script_ok, gan, ep>>

\* Trainer._build_optimizer: one optimizer over self.model.parameters()
BuildOptimizer ==
    /\ ~built.set
    /\ LET o == OptimClass(built.learner)
       IN  built' = [set |-> TRUE, learner |-> built.learner, module |-> "model",
                     result |-> <<o.class>>, warned |-> o.warned]
    /\ BuildFrame

\* GANTrainer._build_module_optimizer(module): one optimizer, or the pair
\* (manager_opt, worker_opt) for a LeakGANGenerator
BuildModuleOptimizer ==
    /\ ~built.set
    /\ \E module \in {"generator", "discriminator", "LeakGANGenerator"} :
          LET o == OptimClass(built.learner)
              multi_flag == module = "LeakGANGenerator"
          IN  built' = [set |-> TRUE, learner |-> built.learner, module |-> module,
                        result |-> IF multi_flag THEN <<o.class, o.class>>
                                   ELSE <<o.class>>,
                        warned |-> o.warned]
    /\ BuildFrame

\* ------------------------------------------------------ the epoch routines
\* a loss value: a scalar, a tuple of parts, or the perplexity np.exp(x) of a
\* scalar, kept as its argument
Scalar(x) == [tuple |-> FALSE, exp |-> FALSE, parts |-> <<x>>]
Tuple(s) == [tuple |-> TRUE, exp |-> FALSE, parts |-> s]
Exp(v) == [tuple |-> FALSE, exp |-> TRUE, parts |-> v.parts]

\* what model.calculate_loss and its siblings return for one batch: a scalar
\* (arity 0) or a tuple of arity parts
LossParts == {Fin(1, 1), Fin(2, 1), NaN}
LossValues(arity) ==
    IF arity = 0 THEN {Scalar(x) : x \in LossParts}
    ELSE {Tuple(s) : s \in [1..arity -> LossParts]}

\* a total that holds a value
Total(tuple, parts) == [some |-> TRUE, tuple |-> tuple, parts |-> parts]

\* sum(losses): 0 + losses[0] + losses[1] + ...
RECURSIVE SumParts(_)
SumParts(s) ==
    IF Len(s) = 0 THEN Zero
    ELSE Add(SumParts(SubSeq(s, 1, Len(s) - 1)), s[Len(s)])

\* `loss = sum(losses)` for a tuple, `loss = losses` for a scalar
CombinedLoss(losses) ==
    IF losses.tuple THEN SumParts(losses.parts) ELSE losses.parts[1]

\* mutant: the running total keeps the loss of the last step only
AccumulateLast(total_loss, losses) == Total(losses.tuple, losses.parts)

\* the accumulation of one step: the loss itself when total_loss is None,
\* tuple(map(sum, zip(total_loss, loss_tuple))) for a tuple, total_loss +
\* losses.item() for a scalar
Accumulate(total_loss, losses) ==
    IF ~total_loss.some THEN Total(losses.tuple, losses.parts)
    ELSE IF losses.tuple
         THEN Total(TRUE, [i \in 1..Min(Len(total_loss.parts), Len(losses.parts)) |->
                              Add(total_loss.parts[i], losses.parts[i])])
         ELSE Total(FALSE, <<Add(total_loss.parts[1], losses.parts[1])>>)

Failure(what) == [err |-> what, val |-> Scalar(Zero)]
Value(v) == [err |-> "none", val |-> v]

\* `total_loss / k` on a Python value: None / k and tuple / k raise
\* TypeError, float / 0 raises ZeroDivisionError
DivTotal(total_loss, k) ==
    IF ~total_loss.some \/ total_loss.tuple THEN Failure("type_error")
    ELSE IF k = 0 THEN Failure("zero_division")
    ELSE Value(Scalar(DivBy(total_loss.parts[1], k)))

\* the return of GANTrainer._g_train_epoch:
\* `[l / len(train_data) for l in total_loss] if isinstance(total_loss, tuple)
\* else total_loss / len(train_data)`
DivTotalByPart(total_loss, k) ==
    IF total_loss.some /\ total_loss.tuple
    THEN IF k = 0 THEN Failure("zero_division")
         ELSE Value(Tuple([i \in 1..Len(total_loss.parts) |->
                                 DivBy(total_loss.parts[i], k)]))
    ELSE DivTotal(total_loss, k)

\* one operation on the gradients or on an optimizer; part: index of the
\* parameter partition in (manager, worker), 0 for an undivided module
Op(name) == [op |-> name, part |-> 0, retain |-> FALSE]
PartOp(name, part, retain) == [op |-> name, part |-> part, retain |-> retain]

\* the optimizers of a LeakGANGenerator: (manager_opt, worker_opt)
Partitions == <<"manager_opt", "worker_opt">>

\* mutant: no backward pass of the multi step retains the graph
RECURSIVE MultiStepOpsNoRetain(_, _)
MultiStepOpsNoRetain(k, nopts) ==
    IF k = 0 THEN <<>>
    ELSE MultiStepOpsNoRetain(k - 1, nopts) \o
         <<PartOp("zero_grad", k, FALSE),
           PartOp("backward", k, FALSE),
           PartOp("step", k, FALSE)>>

\* GANTrainer._optimize_multi_step: for every (opt, loss) of zip(opts, losses)
\* zero_grad, backward(retain_graph = i < len(opts) - 1), step
RECURSIVE MultiStepOps(_, _)
MultiStepOps(k, nopts) ==
    IF k = 0 THEN <<>>
    ELSE MultiStepOps(k - 1, nopts) \o
         <<PartOp("zero_grad", k, FALSE),
           PartOp("backward", k, k - 1 < nopts - 1),
           PartOp("step", k, FALSE)>>

\* mutant: the generator step frees the graph, the critic step retains it
MaskRetainSwapped(net) == net = "c"

\* retain_graph of MaskGANTrainer._optimize_step: True for the generator step
\* of the adversarial epoch, the default False elsewhere
MaskRetain(net) == net = "g"

\* what _optimize_step does after self._check_nan(loss) passed: the multi
\* step of a LeakGANGenerator (iterating a scalar loss is a TypeError), or
\* zero_grad, backward, clip_grad_norm_, step
AfterCheck(kind, leak, losses, retain_graph) ==
    IF kind # "MaskGANTrainer" /\ leak
    THEN IF losses.tuple
         THEN [err |-> "none",
               ops |-> MultiStepOps(Min(Len(Partitions), Len(losses.parts)),
                                    Len(Partitions))]
         ELSE [err |-> "type_error", ops |-> <<>>]
    ELSE [err |-> "none",
          ops |-> <<Op("zero_grad"), PartOp("backward", 0, retain_graph),
                    Op("clip"), Op("step")>>]

\* next(data) on a dataloader at position pos of n batches
DataNext(pos, n) ==
    IF pos < n THEN [ok |-> TRUE, batch |-> pos, pos |-> pos + 1]
    ELSE [ok |-> FALSE, batch |-> 0, pos |-> pos]

\* mutant: the restarted iterator skips its first batch again
NextOrRestartSkipping(pos, n) ==
    IF DataNext(pos, n).ok THEN DataNext(pos, n) ELSE DataNext(1, n)

\* `try: d_x = next(dis_train_data) except StopIteration:` a fresh
\* copy.deepcopy(train_data) and its first batch
NextOrRestart(pos, n) ==
    IF DataNext(pos, n).ok THEN DataNext(pos, n) ELSE DataNext(0, n)

\* a call of an epoch routine on n batches whose losses have the given arity
Call(routine, kind, leak, n, arity, adv_d, e) ==
    [NoEp EXCEPT !.routine = routine, !.kind = kind, !.leak = leak, !.n = n,
                 !.arity = arity, !.adv_d = adv_d, !.e = e,
                 !.pc = IF routine = "_adversarial_train_epoch" THEN "call" ELSE "loop"]

\* one logged step: the network stepped ("m" model, "g" generator, "d"
\* discriminator, "c" critic loss), the batch it used, its losses, what it did
StepRec(net, batch, losses, ops) ==
    [net |-> net, batch |-> batch, losses |-> losses, ops |-> ops]

EpRaise(what) == [ep EXCEPT !.pc = "raised", !.error = what]

EpFrame ==
    UNCHANGED <<cfg, gen, resumed, files, start_epoch, cur_step, best_valid_score,
                best_valid_result, params, opt, pc, error, epoch_idx, batch_idx,
                valid_total, last_loss, ret, trace, best_params, script_ok, gan,
                built>>

\* one batch of Trainer._train_epoch
TrainEpochBatch ==
    /\ ep.routine = "_train_epoch" /\ ep.pc = "loop" /\ ep.i < ep.n
    /\ \E losses \in LossValues(ep.arity) :
        LET total_loss == Accumulate(ep.total, losses)
            nan == CheckNan(CombinedLoss(losses))
            ops == IF nan THEN <<Op("zero_grad"), Op("check")>>
                   ELSE <<Op("zero_grad"), Op("check"), Op("backward"), Op("step")>>
            next == [ep EXCEPT !.total = total_loss,
                               !.log = Append(@, StepRec("m", ep.i, losses, ops))]
        IN  ep' = IF nan THEN [next EXCEPT !.pc = "raised", !.error = "nan"]
                  ELSE [next EXCEPT !.i = @ + 1]
    /\ EpFrame

\* `train_loss = total_loss / len(train_data); ppl = np.exp(train_loss)`, the
\* return, and in fit `self.train_loss_ppl_dict[epoch_idx] = (train_loss, train_ppl)`
TrainEpochReturn ==
    /\ ep.routine = "_train_epoch" /\ ep.pc = "loop" /\ ep.i = ep.n
    /\ LET train_loss == DivTotal(ep.total, ep.n)
       IN  ep' = IF train_loss.err # "none" THEN EpRaise(train_loss.err)
                 ELSE [ep EXCEPT !.pc = "returned",
                                 !.result = <<train_loss.val, Exp(train_loss.val)>>,
                                 !.hist = Append(@, [e |-> ep.e,
                                                     loss |-> train_loss.val,
                                                     ppl |-> Exp(train_loss.val)])]
    /\ EpFrame

\* one batch of Trainer._valid_epoch: no backward, no optimizer step
ValidEpochBatch ==
    /\ ep.routine = "_valid_epoch" /\ ep.pc = "loop" /\ ep.i < ep.n
    /\ \E losses \in LossValues(ep.arity) :
        LET total_loss == Accumulate(ep.total, losses)
            nan == CheckNan(CombinedLoss(losses))
            next == [ep EXCEPT !.total = total_loss,
                               !.log = Append(@, StepRec("m", ep.i, losses,
                                                         <<Op("zero_grad"), Op("check")>>))]
        IN  ep' = IF nan THEN [next EXCEPT !.pc = "raised", !.error = "nan"]
                  ELSE [next EXCEPT !.i = @ + 1]
    /\ EpFrame

\* `valid_loss = total_loss / len(valid_data); ppl = np.exp(valid_loss)`
ValidEpochReturn ==
    /\ ep.routine = "_valid_epoch" /\ ep.pc = "loop" /\ ep.i = ep.n
    /\ LET valid_loss == DivTotal(ep.total, ep.n)
       IN  ep' = IF valid_loss.err # "none" THEN EpRaise(valid_loss.err)
                 ELSE [ep EXCEPT !.pc = "returned",
                                 !.result = <<valid_loss.val, Exp(valid_loss.val)>>]
    /\ EpFrame

\* _optimize_step(losses, total_loss, model, opt) of the trainer kind on
\* network net with the batch of index b; Then(next) is the state the caller
\* goes on from, next being the state with the total and the log updated
Optimized(which, net, b, losses, retain_graph) ==
    LET total_loss == Accumulate(ep[which], losses)
        nan == CheckNan(CombinedLoss(losses))
        after == AfterCheck(ep.kind, ep.leak, losses, retain_graph)
        ops == IF nan THEN <<Op("check")>> ELSE <<Op("check")>> \o after.ops
        next == [ep EXCEPT ![which] = total_loss,
                           !.log = Append(@, StepRec(net, b, losses, ops))]
    IN  [err |-> IF nan THEN "nan" ELSE after.err, next |-> next]

\* one batch of _g_train_epoch (GANTrainer's or MaskGANTrainer's)
GTrainEpochBatch ==
    /\ ep.routine = "_g_train_epoch" /\ ep.pc = "loop" /\ ep.i < ep.n
    /\ \E losses \in LossValues(ep.arity) :
        LET o == Optimized("total", "g", ep.i, losses, FALSE)
        IN  ep' = IF o.err # "none"
                  THEN [o.next EXCEPT !.pc = "raised", !.error = o.err]
                  ELSE [o.next EXCEPT !.i = @ + 1]
    /\ EpFrame

\* the mean and the return of _g_train_epoch: part by part in GANTrainer, the
\* plain `total_loss / len(train_data)` in MaskGANTrainer
GTrainEpochReturn ==
    /\ ep.routine = "_g_train_epoch" /\ ep.pc = "loop" /\ ep.i = ep.n
    /\ LET total_loss == IF ep.kind = "MaskGANTrainer" THEN DivTotal(ep.total, ep.n)
                         ELSE DivTotalByPart(ep.total, ep.n)
       IN  ep' = IF total_loss.err # "none" THEN EpRaise(total_loss.err)
                 ELSE [ep EXCEPT !.pc = "returned", !.result = <<total_loss.val>>]
    /\ EpFrame

\* MaskGANTrainer._adversarial_train_epoch up to its loop: the two copies of
\* train_data, and `_ = next(dis_train_data)`
MaskAdvEnter ==
    /\ ep.routine = "_adversarial_train_epoch" /\ ep.pc = "call"
    /\ LET first == DataNext(0, ep.n)
       IN  ep' = IF first.ok THEN [ep EXCEPT !.dpos = first.pos, !.pc = "g_x"]
                 ELSE EpRaise("stop_iteration")
    /\ EpFrame

\* `for g_x in gen_train_data`: the next macro-step, or the return
\* `(dis_total_loss / d_num, gen_total_loss / g_num, critic_total_loss / g_num)`
MaskAdvNext ==
    /\ ep.routine = "_adversarial_train_epoch" /\ ep.pc = "g_x"
    /\ IF ep.i < ep.n
       THEN ep' = [ep EXCEPT !.g_num = @ + 1, !.j = 0,
                             !.pc = IF ep.adv_d > 0 THEN "d" ELSE "g"]
       ELSE LET dis == DivTotal(ep.total, ep.d_num)
                gen_ == DivTotal(ep.g_total, ep.g_num)
                critic == DivTotal(ep.c_total, ep.g_num)
                err == IF dis.err # "none" THEN dis.err
                       ELSE IF gen_.err # "none" THEN gen_.err ELSE critic.err
            IN  ep' = IF err # "none" THEN EpRaise(err)
                      ELSE [ep EXCEPT !.pc = "returned",
                                      !.result = <<dis.val, gen_.val, critic.val>>]
    /\ EpFrame

\* one discriminator micro-step: d_num += 1, the next batch of dis_train_data
\* (restarted when exhausted), _optimize_step on the discriminator
MaskAdvDStep ==
    /\ ep.routine = "_adversarial_train_epoch" /\ ep.pc = "d"
    /\ LET d_x == NextOrRestart(ep.dpos, ep.n)
       IN  IF ~d_x.ok
           THEN ep' = [EpRaise("stop_iteration") EXCEPT !.d_num = @ + 1]
           ELSE \E losses \in LossValues(ep.arity) :
                  LET o == Optimized("total", "d", d_x.batch, losses, MaskRetain("d"))
                      next == [o.next EXCEPT !.d_num = @ + 1, !.dpos = d_x.pos]
                  IN  ep' = IF o.err # "none"
                            THEN [next EXCEPT !.pc = "raised", !.error = o.err]
                            ELSE [next EXCEPT !.j = @ + 1,
                                              !.pc = IF ep.j + 1 < ep.adv_d
                                                     THEN "d" ELSE "g"]
    /\ EpFrame

\* the generator step on gen_losses of batch g_x, retain_graph=True
MaskAdvGStep ==
    /\ ep.routine = "_adversarial_train_epoch" /\ ep.pc = "g"
    /\ \E losses \in LossValues(ep.arity) :
        LET o == Optimized("g_total", "g", ep.i, losses, MaskRetain("g"))
        IN  ep' = IF o.err # "none"
                  THEN [o.next EXCEPT !.pc = "raised", !.error = o.err]
                  ELSE [o.next EXCEPT !.pc = "c"]
    /\ EpFrame

\* the critic step on critic_losses of the same batch g_x, with d_optimizer
MaskAdvCStep ==
    /\ ep.routine = "_adversarial_train_epoch" /\ ep.pc = "c"
    /\ \E losses \in LossValues(ep.arity) :
        LET o == Optimized("c_total", "c", ep.i, losses, MaskRetain("c"))
        IN  ep' = IF o.err # "none"
                  THEN [o.next EXCEPT !.pc = "raised", !.error = o.err]
                  ELSE [o.next EXCEPT !.pc = "g_x", !.i = @ + 1]
    /\ EpFrame

\* ------------------------------------------------------ base Trainer.fit
\* variables no step of the base fit loop touches
FitFrame == UNCHANGED <<cfg, gen, resumed, start_epoch, best_params, script_ok, gan, built, ep>>

\* mutant: the epoch loop ends after one epoch
LoopNextOnce(e, bvs, bvr) ==
    /\ pc' = "done"
    /\ epoch_idx' = epoch_idx
    /\ batch_idx' = batch_idx
    /\ ret' = Ret(bvs, bvr)

\* the `for epoch_idx in range(self.start_epoch, self.epochs)` header after
\* epoch e ran to its end (or `continue`): next epoch, or fall out and return
LoopNext(e, bvs, bvr) ==
    IF e + 1 < cfg.epochs
    THEN /\ pc' = "train"
         /\ epoch_idx' = e + 1
         /\ batch_idx' = 0
         /\ ret' = ret
    ELSE /\ pc' = "done"
         /\ epoch_idx' = epoch_idx
         /\ batch_idx' = batch_idx
         /\ ret' = Ret(bvs, bvr)

\* `raise ValueError('Training loss is nan')` leaving fit
Raise(what) ==
    /\ pc' = "aborted"
    /\ error' = what

\* fit is called on the live trainer: the loop header is evaluated first
Fit ==
    /\ pc = "idle"
    /\ IsBase
    /\ gen = 1 \/ resumed
    /\ IF start_epoch < cfg.epochs
       THEN /\ pc' = "train"
            /\ epoch_idx' = start_epoch
            /\ batch_idx' = 0
            /\ ret' = ret
       ELSE /\ pc' = "done"
            /\ ret' = Ret(best_valid_score, best_valid_result)
            /\ UNCHANGED <<epoch_idx, batch_idx>>
    /\ UNCHANGED <<cfg, gen, resumed, files, start_epoch, cur_step, best_valid_score,
                   best_valid_result, params, opt, error, valid_total, last_loss,
                   trace, best_params, script_ok, gan, built, ep>>

\* one iteration of the batch loop of _train_epoch; on the last batch the
\* epoch mean is taken and _train_epoch returns
TrainStep ==
    /\ pc = "train"
    /\ \E loss \in TrainLosses :
        /\ last_loss' = loss
        /\ IF CheckNan(loss)
           THEN /\ Raise("nan")
                /\ UNCHANGED <<params, opt, batch_idx, trace>>
           ELSE /\ opt' = [opt EXCEPT !.optimizer = @ + 1]
                /\ params' = [params EXCEPT !.m = @ + 1]
                /\ batch_idx' = batch_idx + 1
                /\ error' = error
                /\ IF batch_idx + 1 = cfg.n_train
                   THEN /\ pc' = "save"
                        /\ trace' = Append(trace, Ev("train", epoch_idx))
                   ELSE UNCHANGED <<pc, trace>>
    /\ FitFrame
    /\ UNCHANGED <<files, cur_step, best_valid_score, best_valid_result, epoch_idx,
                   valid_total, ret>>

\* mutant: no checkpoint after the training epoch
SaveAfterTrainSkipped ==
    /\ pc = "save"
    /\ pc' = "branch"
    /\ last_loss' = Zero
    /\ FitFrame
    /\ UNCHANGED <<files, trace, cur_step, best_valid_score, best_valid_result, params,
                   opt, error, epoch_idx, batch_idx, valid_total, ret>>

\* self._save_checkpoint(epoch_idx) right after _train_epoch
SaveAfterTrain ==
    /\ pc = "save"
    /\ files' = [files EXCEPT ![gen] = SaveCheckpoint(epoch_idx, cur_step, best_valid_score)]
    /\ trace' = Append(trace, Ev("save", epoch_idx))
    /\ pc' = "branch"
    /\ last_loss' = Zero
    /\ FitFrame
    /\ UNCHANGED <<cur_step, best_valid_score, best_valid_result, params, opt, error,
                   epoch_idx, batch_idx, valid_total, ret>>

\* mutant: the validation points are the epochs with epoch_idx % eval_step == 0
ValidationDueOffByOne(e) == e % EvalStep = 0

\* `if (epoch_idx + 1) % self.eval_step == 0`
ValidationDue(e) == (e + 1) % EvalStep = 0

\* `if self.eval_step <= 0 or not valid_data`
ValidationDisabled == EvalStep <= 0 \/ cfg.n_valid = 0

\* mutant: the break is taken at every validation point
BreakAlways(stop_flag) == TRUE

\* mutant: the validation result is kept at every validation point
BestResultAlways(update_flag, valid_result, old) == valid_result

\* `if update_flag: ... self.best_valid_result = valid_result`
BestResult(update_flag, valid_result, old) ==
    IF update_flag THEN valid_result ELSE old

\* mutant: the break is never taken
BreakNever(stop_flag) == FALSE

\* `if stop_flag: ... break`
BreakOnStop(stop_flag) == stop_flag

\* the `# eval` branch: no validation (save again if saved, continue), or a
\* validation point on epochs with (epoch_idx + 1) % eval_step == 0
EvalBranch ==
    /\ pc = "branch"
    /\ IF ValidationDisabled
       THEN /\ IF cfg.saved
               THEN /\ files' = [files EXCEPT ![gen] =
                                    SaveCheckpoint(epoch_idx, cur_step, best_valid_score)]
                    /\ trace' = Append(trace, Ev("save", epoch_idx))
               ELSE UNCHANGED <<files, trace>>
            /\ LoopNext(epoch_idx, best_valid_score, best_valid_result)
            /\ UNCHANGED valid_total
       ELSE IF ValidationDue(epoch_idx)
            THEN /\ pc' = "valid"
                 /\ batch_idx' = 0
                 /\ valid_total' = Zero
                 /\ UNCHANGED <<files, trace, epoch_idx, ret>>
            ELSE /\ LoopNext(epoch_idx, best_valid_score, best_valid_result)
                 /\ UNCHANGED <<files, trace, valid_total>>
    /\ FitFrame
    /\ UNCHANGED <<cur_step, best_valid_score, best_valid_result, params, opt, error,
                   last_loss>>

\* one iteration of the batch loop of _valid_epoch (no backward, no step)
ValidStep ==
    /\ pc = "valid"
    /\ \E loss \in ValidLosses :
        /\ last_loss' = loss
        /\ valid_total' = Add(valid_total, loss)
        /\ IF CheckNan(loss)
           THEN /\ Raise("nan")
                /\ UNCHANGED <<batch_idx, trace>>
           ELSE /\ batch_idx' = batch_idx + 1
                /\ error' = error
                /\ IF batch_idx + 1 = cfg.n_valid
                   THEN /\ pc' = "early"
                        /\ trace' = Append(trace, Ev("valid", epoch_idx))
                   ELSE UNCHANGED <<pc, trace>>
    /\ FitFrame
    /\ UNCHANGED <<files, cur_step, best_valid_score, best_valid_result, params, opt,
                   epoch_idx, ret>>

\* mutant: the policy is called with a patience counter of 0
PolicyCallFromZero(valid_score) ==
    EarlyStopping(valid_score, best_valid_score, 0, cfg.stopping_step, FALSE)

\* mutant: the policy is called with bigger=True
PolicyCallBigger(valid_score) ==
    EarlyStopping(valid_score, best_valid_score, cur_step, cfg.stopping_step, TRUE)

\* `early_stopping(valid_score, self.best_valid_score, self.cur_step,
\* max_step=self.stopping_step, bigger=False)`
PolicyCall(valid_score) ==
    EarlyStopping(valid_score, best_valid_score, cur_step, cfg.stopping_step, FALSE)

\* after _valid_epoch returned: early_stopping, the best checkpoint, the break
EarlyStop ==
    /\ pc = "early"
    /\ LET valid_score == DivBy(valid_total, cfg.n_valid)
           es == PolicyCall(valid_score)
           save_best == es.update_flag /\ cfg.saved
           checked == Append(trace, EvF("check", epoch_idx, es.update_flag))
           tr == IF save_best THEN Append(checked, Ev("save", epoch_idx)) ELSE checked
           k == Count(trace, "check") + 1
           bvr == BestResult(es.update_flag, Ppl(valid_score), best_valid_result)
       IN  /\ best_valid_score' = es.best
           /\ cur_step' = es.cur_step
           /\ files' = IF save_best
                       THEN [files EXCEPT ![gen] =
                                SaveCheckpoint(epoch_idx, es.cur_step, es.best)]
                       ELSE files
           /\ best_valid_result' = bvr
           /\ best_params' = IF es.update_flag THEN params ELSE best_params
           /\ script_ok' = (script_ok /\ k <= Len(Script) /\ valid_score = Script[k])
           /\ IF BreakOnStop(es.stop_flag)
              THEN /\ trace' = Append(tr, Ev("stop", epoch_idx))
                   /\ pc' = "done"
                   /\ ret' = Ret(es.best, bvr)
                   /\ UNCHANGED <<epoch_idx, batch_idx>>
              ELSE /\ trace' = tr
                   /\ LoopNext(epoch_idx, es.best, bvr)
    /\ valid_total' = Zero
    /\ last_loss' = Zero
    /\ UNCHANGED <<cfg, gen, resumed, start_epoch, params, opt, error, gan, built, ep>>

\* ------------------------------------------------- adversarial trainers
GanFrame == UNCHANGED <<cfg, gen, resumed, start_epoch, cur_step, best_valid_score,
                        best_valid_result, valid_total, best_params, script_ok,
                        built, ep>>

\* GANTrainer._save_checkpoint: no optimizer state is written
GanSaveCheckpoint(epoch) ==
    [exists |-> TRUE, model |-> cfg.kind, epoch |-> epoch, cur_step |-> cur_step,
     best_valid_score |-> best_valid_score, state_dict |-> params, optimizer |-> {}]

\* mini-batches one inner pass of _d_train_epoch steps through: the zipped
\* real and fake batches, the real batches (TextGANTrainer), or train_data
\* (MaskGANTrainer)
DPairs ==
    IF cfg.kind \in PairedKinds THEN Min(cfg.n_real, cfg.n_fake)
    ELSE IF cfg.kind = "TextGANTrainer" THEN cfg.n_real
    ELSE cfg.n_train

\* inner passes of _d_train_epoch (MaskGANTrainer has a single loop)
DPasses == IF cfg.kind = "MaskGANTrainer" THEN 1 ELSE cfg.d_sample_training_epochs

\* mutant: TextGANTrainer steps the generator once per batch of train_data
AdvGStepsTrain == IF cfg.kind = "TextGANTrainer" THEN cfg.n_train ELSE 1

\* generator steps of one _adversarial_train_epoch
AdvGSteps == IF cfg.kind = "TextGANTrainer" THEN cfg.n_real ELSE 1

\* mutant: a step updates both networks and steps both optimizers
OptimizeStepBoth(net, handle, name, Then) ==
    \E loss \in TrainLosses :
        /\ last_loss' = loss
        /\ IF CheckNan(loss)
           THEN /\ Raise("nan")
                /\ UNCHANGED <<params, opt, trace, epoch_idx, batch_idx, gan>>
           ELSE /\ opt' = [opt EXCEPT !.g_optimizer = @ + 1, !.d_optimizer = @ + 1]
                /\ params' = [params EXCEPT !.g = @ + 1, !.d = @ + 1]
                /\ trace' = Append(trace, EvF(name, epoch_idx, gan.adv))
                /\ Then

\* GANTrainer._optimize_step on network net with optimizer handle: the NaN
\* check, then zero_grad, backward, clip_grad_norm_ and opt.step(); Then is
\* where the caller's loop goes next (or the error it raises on the way); the
\* event's flag tells whether the adversarial phase has begun
OptimizeStep(net, handle, name, Then) ==
    \E loss \in TrainLosses :
        /\ last_loss' = loss
        /\ IF CheckNan(loss)
           THEN /\ Raise("nan")
                /\ UNCHANGED <<params, opt, trace, epoch_idx, batch_idx, gan>>
           ELSE /\ opt' = [opt EXCEPT ![handle] = @ + 1]
                /\ params' = [params EXCEPT ![net] = @ + 1]
                /\ trace' = Append(trace, EvF(name, epoch_idx, gan.adv))
                /\ Then

\* a loop header or a return: no step is executed
Header ==
    /\ last_loss' = Zero
    /\ UNCHANGED <<params, opt>>

\* fit is called on an adversarial trainer
GanFit ==
    /\ pc = "idle"
    /\ IsGan
    /\ gen = 1
    /\ pc' = "g_head"
    /\ epoch_idx' = 0
    /\ Header /\ GanFrame
    /\ UNCHANGED <<files, error, batch_idx, ret, trace, gan>>

\* `for epoch_idx in range(self.g_pretraining_epochs)`
GPretrainHead ==
    /\ pc = "g_head"
    /\ IF epoch_idx < cfg.g_pretraining_epochs
       THEN /\ pc' = "g_step"
            /\ batch_idx' = 0
            /\ epoch_idx' = epoch_idx
       ELSE /\ pc' = "d_head"
            /\ epoch_idx' = 0
            /\ batch_idx' = batch_idx
    /\ Header /\ GanFrame
    /\ UNCHANGED <<files, error, ret, trace, gan>>

\* one batch of _g_train_epoch; after the last one the mean is taken and
\* the pretraining loop goes to its next epoch.  GANTrainer._g_train_epoch
\* divides a tuple total part by part, MaskGANTrainer._g_train_epoch divides
\* the tuple itself (TypeError)
GPretrainStep ==
    /\ pc = "g_step"
    /\ OptimizeStep("g", "g_optimizer", "g_step",
          /\ gan' = gan
          /\ IF batch_idx + 1 = cfg.n_train
             THEN IF cfg.kind = "MaskGANTrainer" /\ cfg.g_tuple
                  THEN /\ Raise("type_error")
                       /\ UNCHANGED <<epoch_idx, batch_idx>>
                  ELSE /\ pc' = "g_head"
                       /\ error' = error
                       /\ epoch_idx' = epoch_idx + 1
                       /\ batch_idx' = 0
             ELSE /\ pc' = pc
                  /\ error' = error
                  /\ epoch_idx' = epoch_idx
                  /\ batch_idx' = batch_idx + 1)
    /\ GanFrame
    /\ UNCHANGED <<files, ret>>

\* `for epoch_idx in range(self.d_pretraining_epochs)`: enter _d_train_epoch
DPretrainHead ==
    /\ pc = "d_head"
    /\ IF epoch_idx < cfg.d_pretraining_epochs
       THEN /\ pc' = "dp_head"
            /\ gan' = [gan EXCEPT !.pass = 0, !.count = 0]
            /\ epoch_idx' = epoch_idx
       ELSE /\ pc' = "a_head"
            /\ epoch_idx' = 0
            /\ gan' = gan
    /\ Header /\ GanFrame
    /\ UNCHANGED <<files, error, batch_idx, ret, trace>>

\* `for _ in range(self.d_sample_training_epochs)` of _d_train_epoch, and its
\* return `total_loss / ... / self.d_sample_training_epochs`, which raises a
\* TypeError when no step ran (total_loss is None) or when the total is a
\* tuple; the routine returns (event "d_pass") into
\* the adversarial epoch or into the pretraining loop of fit
DTrainHead ==
    /\ pc = "dp_head"
    /\ IF gan.pass < DPasses
       THEN /\ IF DPairs > 0
               THEN /\ pc' = "d_step"
                    /\ batch_idx' = 0
                    /\ gan' = gan
               ELSE /\ pc' = pc
                    /\ batch_idx' = batch_idx
                    /\ gan' = [gan EXCEPT !.pass = @ + 1]
            /\ UNCHANGED <<error, epoch_idx, trace>>
       ELSE IF gan.count = 0 \/ cfg.d_tuple
            THEN /\ Raise("type_error")
                 /\ UNCHANGED <<epoch_idx, batch_idx, gan, trace>>
            ELSE /\ trace' = Append(trace, EvF("d_pass", epoch_idx, gan.adv))
                 /\ IF gan.adv
                    THEN /\ pc' = "ad_head"
                         /\ gan' = [gan EXCEPT !.d_epoch = @ + 1]
                         /\ UNCHANGED <<error, epoch_idx, batch_idx>>
                    ELSE /\ pc' = "d_head"
                         /\ epoch_idx' = epoch_idx + 1
                         /\ UNCHANGED <<error, batch_idx, gan>>
    /\ Header /\ GanFrame
    /\ UNCHANGED <<files, ret>>

\* one paired mini-batch of _d_train_epoch
DTrainStep ==
    /\ pc = "d_step"
    /\ OptimizeStep("d", "d_optimizer", "d_step",
          /\ epoch_idx' = epoch_idx
          /\ error' = error
          /\ IF batch_idx + 1 = DPairs
             THEN /\ pc' = "dp_head"
                  /\ batch_idx' = 0
                  /\ gan' = [gan EXCEPT !.pass = @ + 1, !.count = @ + 1]
             ELSE /\ pc' = pc
                  /\ batch_idx' = batch_idx + 1
                  /\ gan' = [gan EXCEPT !.count = @ + 1])
    /\ GanFrame
    /\ UNCHANGED <<files, ret>>

\* `for epoch_idx in range(self.adversarail_training_epochs)`: enter
\* _adversarial_train_epoch, or leave the loop for the terminal checkpoint
AdversarialHead ==
    /\ pc = "a_head"
    /\ IF epoch_idx < cfg.adversarail_training_epochs
       THEN /\ pc' = IF cfg.kind = "MaskGANTrainer" THEN "m_head" ELSE "ag_head"
            /\ gan' = [gan EXCEPT !.k = 0, !.d_epoch = 0, !.adv = TRUE]
       ELSE /\ pc' = "gan_save"
            /\ gan' = gan
    /\ Header /\ GanFrame
    /\ UNCHANGED <<files, error, epoch_idx, batch_idx, ret, trace>>

\* the generator part of _adversarial_train_epoch: one step, or for
\* TextGANTrainer one step per batch of the real dataloader
AdvGeneratorHead ==
    /\ pc = "ag_head"
    /\ IF gan.k < AdvGSteps
       THEN pc' = "ag_step"
       ELSE pc' = "ad_head"
    /\ Header /\ GanFrame
    /\ UNCHANGED <<files, error, epoch_idx, batch_idx, ret, trace, gan>>

AdvGeneratorStep ==
    /\ pc = "ag_step"
    /\ OptimizeStep("g", "g_optimizer", "g_step",
          /\ pc' = "ag_head"
          /\ error' = error
          /\ gan' = [gan EXCEPT !.k = @ + 1]
          /\ UNCHANGED <<epoch_idx, batch_idx>>)
    /\ GanFrame
    /\ UNCHANGED <<files, ret>>

\* `for epoch_idx in range(self.adversarail_d_epochs)` of
\* _adversarial_train_epoch, then its return (RankGANTrainer divides d_loss by
\* adversarail_d_epochs, TextGANTrainer total_loss by len(real_dataloader))
\* and, back in fit, the statement
\* `self.train_loss_dict[epoch_idx] = ...` on an attribute no __init__ sets
AdvDiscriminatorHead ==
    /\ pc = "ad_head"
    /\ IF gan.d_epoch < cfg.adversarail_d_epochs
       THEN /\ pc' = "dp_head"
            /\ gan' = [gan EXCEPT !.pass = 0, !.count = 0]
            /\ error' = error
       ELSE /\ gan' = gan
            /\ IF cfg.kind = "RankGANTrainer" /\ cfg.adversarail_d_epochs = 0
               THEN Raise("zero_division")
               ELSE IF cfg.kind = "TextGANTrainer" /\ (gan.k = 0 \/ cfg.g_tuple)
                    THEN Raise("type_error")
                    ELSE Raise("attribute_error")
    /\ Header /\ GanFrame
    /\ UNCHANGED <<files, epoch_idx, batch_idx, ret, trace>>

\* MaskGANTrainer._adversarial_train_epoch, `for g_x in gen_train_data`: the
\* next generator batch, or the return `(dis_total_loss / d_num, ...)`, a
\* TypeError when no discriminator step ran or a total is a tuple, and then
\* the statement of fit on self.train_loss_dict
MaskAdvHead ==
    /\ pc = "m_head"
    /\ IF gan.k < cfg.n_train
       THEN /\ pc' = IF cfg.adversarail_d_epochs > 0 THEN "m_dstep" ELSE "m_gstep"
            /\ gan' = [gan EXCEPT !.d_epoch = 0]
            /\ error' = error
       ELSE /\ gan' = gan
            /\ IF cfg.adversarail_d_epochs = 0 \/ cfg.d_tuple \/ cfg.g_tuple
               THEN Raise("type_error")
               ELSE Raise("attribute_error")
    /\ Header /\ GanFrame
    /\ UNCHANGED <<files, epoch_idx, batch_idx, ret, trace>>

\* `for _ in range(self.adversarail_d_epochs)`: one discriminator step
MaskDStep ==
    /\ pc = "m_dstep"
    /\ OptimizeStep("d", "d_optimizer", "d_step",
          /\ pc' = IF gan.d_epoch + 1 < cfg.adversarail_d_epochs THEN pc ELSE "m_gstep"
          /\ error' = error
          /\ gan' = [gan EXCEPT !.d_epoch = @ + 1]
          /\ UNCHANGED <<epoch_idx, batch_idx>>)
    /\ GanFrame
    /\ UNCHANGED <<files, ret>>

\* the generator step on gen_losses
MaskGStep ==
    /\ pc = "m_gstep"
    /\ OptimizeStep("g", "g_optimizer", "g_step",
          /\ pc' = "m_cstep"
          /\ error' = error
          /\ UNCHANGED <<epoch_idx, batch_idx, gan>>)
    /\ GanFrame
    /\ UNCHANGED <<files, ret>>

\* the critic step on critic_losses, with the discriminator's optimizer
MaskCriticStep ==
    /\ pc = "m_cstep"
    /\ OptimizeStep("d", "d_optimizer", "c_step",
          /\ pc' = "m_head"
          /\ error' = error
          /\ gan' = [gan EXCEPT !.k = @ + 1]
          /\ UNCHANGED <<epoch_idx, batch_idx>>)
    /\ GanFrame
    /\ UNCHANGED <<files, ret>>

\* self._save_checkpoint(self.adversarail_training_epochs); return -1, None
GanSave ==
    /\ pc = "gan_save"
    /\ files' = [files EXCEPT ![gen] = GanSaveCheckpoint(cfg.adversarail_training_epochs)]
    /\ trace' = Append(trace, Ev("save", cfg.adversarail_training_epochs))
    /\ ret' = Ret(Fin(-1, 1), NoResult)
    /\ pc' = "done"
    /\ Header /\ GanFrame
    /\ UNCHANGED <<error, epoch_idx, batch_idx, gan>>

\* ------------------------------------------- evaluate, construction, resume
\* evaluate(eval_data, load_best_model, model_file) after fit returned;
\* model_file = 0 stands for None
Evaluate ==
    /\ pc = "done"
    /\ \E load_best_model \in BOOLEAN, model_file \in {0} \cup Trainers :
        IF load_best_model
        THEN LET checkpoint_file == IF model_file # 0 THEN model_file ELSE gen
             IN  IF files[checkpoint_file].exists
                 THEN /\ params' = files[checkpoint_file].state_dict
                      /\ pc' = "evaluated"
                      /\ error' = error
                      /\ trace' = Append(trace, EvF("load", checkpoint_file, model_file = 0))
                 ELSE /\ Raise("no_file")
                      /\ UNCHANGED <<params, trace>>
        ELSE /\ model_file = 0
             /\ pc' = "evaluated"
             /\ UNCHANGED <<params, error, trace>>
    /\ UNCHANGED <<cfg, gen, resumed, files, start_epoch, cur_step, best_valid_score,
                   best_valid_result, opt, epoch_idx, batch_idx, valid_total,
                   last_loss, ret, best_params, script_ok, gan, built, ep>>

\* a second trainer is constructed (Trainer.__init__) with the same config
\* and a new model, once the first trainer's run is over
Construct ==
    /\ pc \in {"done", "aborted", "evaluated"}
    /\ gen = 1
    /\ gen' = 2
    /\ resumed' = FALSE
    /\ start_epoch' = 0
    /\ cur_step' = 0
    /\ best_valid_score' = Sentinel
    /\ best_valid_result' = NoResult
    /\ params' = NoParams
    /\ opt' = NoOpt
    /\ pc' = "idle"
    /\ error' = "none"
    /\ epoch_idx' = 0
    /\ batch_idx' = 0
    /\ valid_total' = Zero
    /\ last_loss' = Zero
    /\ ret' = NoRet
    /\ trace' = <<>>
    /\ best_params' = NoParams
    /\ script_ok' = TRUE
    /\ gan' = NoGan
    /\ UNCHANGED <<cfg, files, built, ep>>

\* mutant: training resumes at the checkpoint's own epoch
ResumeSameEpoch(checkpoint) == checkpoint.epoch

\* self.start_epoch = checkpoint['epoch'] + 1
ResumeStartEpoch(checkpoint) == checkpoint.epoch + 1

\* Trainer.resume_checkpoint(resume_file) on the new trainer; an adversarial
\* trainer inherits it with self.optimizer = None, so that
\* `self.optimizer.load_state_dict(checkpoint['optimizer'])` raises after the
\* training state and the parameters were restored
Resume ==
    /\ pc = "idle"
    /\ ~resumed
    /\ \E resume_file \in Trainers :
        /\ files[resume_file].exists
        /\ LET checkpoint == files[resume_file]
           IN  /\ start_epoch' = ResumeStartEpoch(checkpoint)
               /\ cur_step' = checkpoint.cur_step
               /\ best_valid_score' = checkpoint.best_valid_score
               /\ params' = checkpoint.state_dict
               /\ IF IsBase
                  THEN /\ opt' = [opt EXCEPT !.optimizer =
                               (CHOOSE h \in checkpoint.optimizer : h[1] = "optimizer")[2]]
                       /\ UNCHANGED <<pc, error>>
                  ELSE /\ Raise("attribute_error")
                       /\ opt' = opt
    /\ resumed' = TRUE
    /\ UNCHANGED <<cfg, gen, files, best_valid_result, epoch_idx, batch_idx,
                   valid_total, last_loss, ret, trace, best_params, script_ok, gan, built, ep>>

Next ==
    \/ Fit
    \/ TrainStep
    \/ SaveAfterTrain
    \/ EvalBranch
    \/ ValidStep
    \/ EarlyStop
    \/ Evaluate
    \/ Construct
    \/ Resume
    \/ GanFit
    \/ GPretrainHead
    \/ GPretrainStep
    \/ DPretrainHead
    \/ DTrainHead
    \/ DTrainStep
    \/ AdversarialHead
    \/ AdvGeneratorHead
    \/ AdvGeneratorStep
    \/ AdvDiscriminatorHead
    \/ MaskAdvHead
    \/ MaskDStep
    \/ MaskGStep
    \/ MaskCriticStep
    \/ GanSave

Spec == Init /\ [][Next]_vars

\* the optimizer builders, each applied once to every learner string
InitBuild ==
    /\ cfg \in {c \in BaseConfigs : c.kind = "Trainer" /\ c.epochs = 0 /\ c.eval_step = 0
                                   /\ c.stopping_step = 0 /\ c.n_train = 1
                                   /\ c.n_valid = 0 /\ c.saved}
    /\ gen = 1
    /\ files = [f \in Trainers |-> NoCkpt]
    /\ InitTrainer
    /\ built \in {[NoBuilt EXCEPT !.learner = l] : l \in LearnerStrings}
    /\ ep = NoEp

NextBuild ==
    \/ BuildOptimizer
    \/ BuildModuleOptimizer

SpecBuild == InitBuild /\ [][NextBuild]_vars

\* the epoch routines, each called once on every number of batches and every
\* form of loss
EpochCalls ==
    {Call("_train_epoch", "Trainer", FALSE, n, arity, 0, e) :
        n \in 0..MaxBatches, arity \in 0..MaxArity, e \in 0..(MaxEpochs - 1)}
    \cup {Call("_valid_epoch", "Trainer", FALSE, n, arity, 0, 0) :
             n \in 0..MaxBatches, arity \in 0..MaxArity}
    \cup {Call("_g_train_epoch", "GANTrainer", leak, n, arity, 0, 0) :
             leak \in BOOLEAN, n \in 0..MaxBatches, arity \in 0..MaxArity}
    \cup {Call("_g_train_epoch", "MaskGANTrainer", FALSE, n, arity, 0, 0) :
             n \in 0..MaxBatches, arity \in 0..MaxArity}
    \cup {Call("_adversarial_train_epoch", "MaskGANTrainer", FALSE, n, arity, adv_d, 0) :
             n \in 0..MaxBatches, arity \in {0, 1}, adv_d \in 0..MaxDEpochs}

InitEpoch ==
    /\ cfg \in {c \in BaseConfigs : c.kind = "Trainer" /\ c.epochs = 0 /\ c.eval_step = 0
                                   /\ c.stopping_step = 0 /\ c.n_train = 1
                                   /\ c.n_valid = 0 /\ c.saved}
    /\ gen = 1
    /\ files = [f \in Trainers |-> NoCkpt]
    /\ InitTrainer
    /\ built = NoBuilt
    /\ ep \in EpochCalls

NextEpoch ==
    \/ TrainEpochBatch
    \/ TrainEpochReturn
    \/ ValidEpochBatch
    \/ ValidEpochReturn
    \/ GTrainEpochBatch
    \/ GTrainEpochReturn
    \/ MaskAdvEnter
    \/ MaskAdvNext
    \/ MaskAdvDStep
    \/ MaskAdvGStep
    \/ MaskAdvCStep

SpecEpoch == InitEpoch /\ [][NextEpoch]_vars

\* the statements of a fit under way, base or adversarial
FitSteps ==
    \/ TrainStep
    \/ SaveAfterTrain
    \/ EvalBranch
    \/ ValidStep
    \/ EarlyStop
    \/ GPretrainHead
    \/ GPretrainStep
    \/ DPretrainHead
    \/ DTrainHead
    \/ DTrainStep
    \/ AdversarialHead
    \/ AdvGeneratorHead
    \/ AdvGeneratorStep
    \/ AdvDiscriminatorHead
    \/ MaskAdvHead
    \/ MaskDStep
    \/ MaskGStep
    \/ MaskCriticStep
    \/ GanSave

IsRunAdv(c) == c.adversarail_training_epochs <= 1

\* what a terminating run is checked on: every kind of trainer with up to
\* MaxRunEpochs epochs and MaxRunBatches batches per dataloader, scalar
\* losses, checkpoints saved; an adversarial fit never enters a second
\* adversarial epoch (the statement after the first one raises), so one is
\* configured
RunConfigs ==
    {c \in Configs :
        /\ c.saved
        /\ c.epochs <= MaxRunEpochs
        /\ c.n_train <= MaxRunBatches /\ c.n_valid <= MaxRunBatches
        /\ c.n_real <= MaxRunBatches /\ c.n_fake <= MaxRunBatches
        /\ ~c.g_tuple /\ ~c.d_tuple
        /\ IsRunAdv(c)}

\* the calls of MaskGANTrainer._adversarial_train_epoch with scalar losses
RunCalls ==
    {Call("_adversarial_train_epoch", "MaskGANTrainer", FALSE, n, 0, adv_d, 0) :
        n \in 0..MaxRunDBatches, adv_d \in 0..MaxRunDEpochs}

\* a fit of a freshly constructed trainer, or one call of the interleaved
\* adversarial epoch
InitRun ==
    \/ Init /\ cfg \in RunConfigs
    \/ InitEpoch /\ ep \in RunCalls

NextRun ==
    \/ Fit
    \/ GanFit
    \/ FitSteps
    \/ MaskAdvEnter
    \/ MaskAdvNext
    \/ MaskAdvDStep
    \/ MaskAdvGStep
    \/ MaskAdvCStep

\* the statements of the interleaved adversarial epoch
MaskAdvSteps ==
    MaskAdvEnter \/ MaskAdvNext \/ MaskAdvDStep \/ MaskAdvGStep \/ MaskAdvCStep

\* fit and the epoch routines are sequential code: a statement that is
\* reached is executed
SpecRun ==
    InitRun /\ [][NextRun]_vars /\ WF_vars(FitSteps) /\ WF_vars(MaskAdvSteps)

\* ------------------------------------------------------------ properties
Last(tr) == tr[Len(tr)]
IsTrain(x) == x.ev = "train"
Trained == SelectSeq(trace, IsTrain)
Returned == pc \in {"done", "evaluated"}
ValidEnabled == ~ValidationDisabled
HasEvent(name, e) == \E i \in 1..Len(trace) : trace[i].ev = name /\ trace[i].e = e
\* what early_stopping returns at the validation point the trainer is at
PolicyNow == EarlyStopping(DivBy(valid_total, cfg.n_valid), best_valid_score, cur_step,
                           cfg.stopping_step, FALSE)

\* the positions at which the next action executes one batch step
TrainPcs == {"train", "g_step", "d_step", "ag_step", "m_dstep", "m_gstep", "m_cstep"}
StepPcs == TrainPcs \cup {"valid"}

\* C1: in every trainer a step whose combined loss is NaN raises out of fit at
\* that step: no optimizer is stepped and no parameter updated for that batch,
\* nothing is recorded or saved, and an aborted fit runs no further step, epoch
\* or phase (the only thing that can follow is the construction of a new
\* trainer).
C1_NaNAborts ==
    [][ /\ (pc \in StepPcs /\ IsNaN(last_loss')) =>
             /\ pc' = "aborted"
             /\ error' = "nan"
             /\ opt' = opt
             /\ params' = params
             /\ files' = files
             /\ trace' = trace
        /\ pc = "aborted" => gen' # gen
      ]_vars

C1_Witness ==
    /\ pc = "aborted"
    /\ error = "nan"
    /\ IsNaN(last_loss)
    /\ cfg.kind = "MaskGANTrainer"
    /\ gan.adv
    /\ opt.g_optimizer > 0
    /\ opt.d_optimizer > 0

C3_StopIsTerminal ==
    [][ /\ (pc = "early" /\ PolicyNow.stop_flag) =>
             /\ pc' = "done"
             /\ files' = files
             /\ params' = params
             /\ epoch_idx' = epoch_idx
             /\ Last(trace') = Ev("stop", epoch_idx)
             /\ ret' = Ret(best_valid_score', best_valid_result')
        /\ (Returned /\ gen' = gen) =>
             /\ pc' \in {"done", "evaluated", "aborted"}
             /\ files' = files
             /\ ret' = ret
             /\ Trained' = Trained
             /\ Count(trace', "valid") = Count(trace, "valid")
      ]_vars

C3_Witness ==
    /\ pc = "done"
    /\ trace # <<>>
    /\ Last(trace).ev = "stop"
    /\ Last(trace).e + 1 < cfg.epochs

\* the early-stopping scenario of the specification
Scenario ==
    /\ IsBase
    /\ gen = 1
    /\ cfg.epochs = 5
    /\ cfg.eval_step = 2
    /\ cfg.stopping_step = 2
    /\ cfg.n_valid > 0
    /\ script_ok

\* C4 as stated: in the scenario fit halts by early stopping, with cur_step
\* at 2, before all 5 epochs are trained.
C4_ScenarioStopsEarly ==
    (Scenario /\ pc = "done") =>
        /\ Last(trace).ev = "stop"
        /\ cur_step = 2
        /\ Len(Trained) < 5

\* C4 amended: in the scenario only the epochs 1 and 3 are validation points,
\* both improve (10, then 9), cur_step stays 0 and fit trains all 5 epochs and
\* returns by exhausting the epoch budget, with best_valid_score 9.
C4_ScenarioRunsAllEpochs ==
    Scenario =>
        /\ cur_step = 0
        /\ \A i \in 1..Len(trace) :
              /\ trace[i].ev # "stop"
              /\ trace[i].ev = "valid" => trace[i].e \in {1, 3}
        /\ Returned =>
              /\ Trained = [i \in 1..5 |-> Ev("train", i - 1)]
              /\ Count(trace, "valid") = 2
              /\ best_valid_score = Fin(9, 1)

C4_Witness ==
    /\ Scenario
    /\ pc = "done"
    /\ Len(Trained) = 5
    /\ best_valid_score = Fin(9, 1)

\* C5: with validation enabled, the validation epoch and the early-stopping
\* check run after a trained epoch e iff (e + 1) mod eval_step = 0, eval_step
\* being min(config eval_step, epochs); after any other trained epoch the loop
\* goes on with cur_step and best_valid_score unchanged, and these two change
\* nowhere but at the early-stopping check.
C5_TraceSchedule ==
    (IsBase /\ ValidEnabled) =>
        \A i \in 1..Len(trace) :
            LET e == trace[i].e
                due == (e + 1) % Min(cfg.eval_step, cfg.epochs) = 0
                over == Returned \/ \E j \in (i + 1)..Len(trace) : trace[j].ev = "train"
            IN  /\ trace[i].ev \in {"valid", "check"} => due
                /\ (trace[i].ev = "train" /\ over) =>
                      /\ HasEvent("valid", e) <=> due
                      /\ HasEvent("check", e) <=> due

C5_ValidationSchedule ==
    /\ []C5_TraceSchedule
    /\ [][ (IsBase /\ gen' = gen /\ resumed' = resumed) =>
             /\ (pc = "branch" /\ ValidEnabled /\
                 (epoch_idx + 1) % Min(cfg.eval_step, cfg.epochs) # 0) =>
                    /\ pc' \in {"train", "done"}
                    /\ cur_step' = cur_step
                    /\ best_valid_score' = best_valid_score
             /\ (cur_step' # cur_step \/ best_valid_score' # best_valid_score) =>
                    pc = "early"
         ]_vars

C5_Witness ==
    /\ IsBase
    /\ ValidEnabled
    /\ cfg.eval_step = 2
    /\ pc = "train"
    /\ epoch_idx = 3
    /\ HasEvent("check", 1)
    /\ ~HasEvent("valid", 2)
    /\ ~HasEvent("valid", 0)

C7_RoundTrip ==
    IsBase =>
        /\ pc = "branch" =>
              files[gen] = [exists |-> TRUE, model |-> cfg.kind, epoch |-> epoch_idx,
                            cur_step |-> cur_step,
                            best_valid_score |-> best_valid_score,
                            state_dict |-> params,
                            optimizer |-> {<<"optimizer", opt.optimizer>>}]
        /\ (gen = 2 /\ resumed) =>
              LET ck == files[1]
              IN  /\ ck.exists
                  /\ start_epoch = ck.epoch + 1
                  /\ pc = "idle" =>
                        /\ cur_step = ck.cur_step
                        /\ best_valid_score = ck.best_valid_score
                        /\ params = ck.state_dict
                        /\ {<<"optimizer", opt.optimizer>>} = ck.optimizer
                  /\ \A i \in 1..Len(Trained) : Trained[i].e = ck.epoch + i
                  /\ (Returned /\ Count(trace, "stop") = 0) =>
                        Len(Trained) = IF cfg.epochs > ck.epoch + 1
                                       THEN cfg.epochs - (ck.epoch + 1) ELSE 0

C7_Witness ==
    /\ IsBase
    /\ gen = 2
    /\ resumed
    /\ pc = "done"
    /\ files[1].cur_step > 0
    /\ files[1].epoch = 1
    /\ Len(Trained) = 2
    /\ Trained[1].e = 2

\* C8 as stated: every checkpoint holds the state of every optimizer handle
\* its trainer owns, and resume_checkpoint on a checkpoint written by the same
\* kind of trainer does not fail.
C8_AllOptimizersSaved ==
    /\ \A f \in Trainers :
          files[f].exists => {h[1] : h \in files[f].optimizer} = Owned(files[f].model)
    /\ resumed => pc # "aborted"

\* C9 as stated: at the return of a base fit that trained an epoch, the
\* checkpoint records the last trained epoch and the cur_step and
\* best_valid_score the trainer holds.
C9_CheckpointIsCurrent ==
    (IsBase /\ pc = "done" /\ Len(Trained) > 0) =>
        /\ files[gen].exists
        /\ files[gen].epoch = Last(Trained).e
        /\ files[gen].cur_step = cur_step
        /\ files[gen].best_valid_score = best_valid_score

\* C10 as stated: after a fit (saved = True) of a fresh trainer in which a
\* validation improved, evaluate(load_best_model=True, model_file=None) restores the
\* parameters the model had at the validation point that set best_valid_score.
C10_EvaluateLoadsBest ==
    (/\ IsBase
     /\ gen = 1
     /\ cfg.saved
     /\ pc = "evaluated"
     /\ trace # <<>>
     /\ Last(trace) = EvF("load", gen, TRUE)
     /\ \E i \in 1..Len(trace) : trace[i].ev = "check" /\ trace[i].flag) =>
        params = best_params

\* the best score the live trainer held when its fit was called
BestAtStart == IF gen = 2 /\ resumed THEN files[1].best_valid_score ELSE Sentinel
Improved == \E i \in 1..Len(trace) : trace[i].ev = "check" /\ trace[i].flag

\* C11 as stated: whenever a validation epoch executed during a base fit, the
\* returned pair is not (sentinel, None).
C11_SentinelOnlyWithoutValidation ==
    (IsBase /\ pc = "done" /\ Count(trace, "valid") > 0) =>
        ret # Ret(Sentinel, NoResult)

\* C11 amended: base fit returns the best score the trainer started with
\* (the sentinel for a fresh trainer) together with None iff no validation
\* score of the run was below that best score; whenever one was, the returned
\* score is below the sentinel and the result is not None.  A validation epoch
\* whose score is not below the sentinel leaves the pair (sentinel, None).
C11_SentinelIffNoImprovement ==
    (IsBase /\ pc = "done") =>
        /\ ret.set
        /\ ret.score = best_valid_score
        /\ Improved => (ret.result.some /\ Less(ret.score, Sentinel))
        /\ ~Improved => ret = Ret(BestAtStart, NoResult)

C11_Witness ==
    /\ IsBase
    /\ gen = 1
    /\ pc = "done"
    /\ Count(trace, "valid") = 2
    /\ ret = Ret(Sentinel, NoResult)

\* C12 as stated: base fit called with valid_data = None returns (-1, None).
C12_NoValidDataReturnsMinusOne ==
    (IsBase /\ pc = "done" /\ cfg.n_valid = 0) =>
        ret = Ret(Fin(-1, 1), NoResult)

\* C16: with stopping_step <= 0 and validation enabled, base fit never takes
\* the early-stopping break, whatever the validation scores are, and a fit
\* that returns has trained every epoch from start_epoch to epochs - 1 in
\* order.
C16_NoStopWithoutPatience ==
    (IsBase /\ cfg.stopping_step <= 0 /\ ValidEnabled) =>
        /\ Count(trace, "stop") = 0
        /\ pc = "done" =>
              /\ Len(Trained) = IF cfg.epochs > start_epoch
                                THEN cfg.epochs - start_epoch ELSE 0
              /\ \A i \in 1..Len(Trained) : Trained[i].e = start_epoch + i - 1

C16_Witness ==
    /\ IsBase
    /\ cfg.stopping_step = 0
    /\ ValidEnabled
    /\ pc = "done"
    /\ cfg.epochs = MaxEpochs
    /\ Len(Trained) = MaxEpochs
    /\ Count(trace, "check") >= 2
    /\ cur_step >= 2

\* C17 as stated: a base fit called with saved = False writes no checkpoint.
C17_UnsavedWritesNothing ==
    (IsBase /\ ~cfg.saved) => ~files[gen].exists

\* events of the adversarial fit so far, by kind and phase
CountIn(name, adversarial) ==
    Cardinality({i \in 1..Len(trace) :
                    trace[i].ev = name /\ trace[i].flag = adversarial})
\* the fit of the first trainer is over, and not by a NaN loss
FitErrors == {"type_error", "attribute_error", "zero_division"}
Ended == gen = 1 /\ (pc = "done" \/ (pc = "aborted" /\ error \in FitErrors))
\* the discriminator pass has data and a scalar loss
DPassRuns == DPairs > 0 /\ DPasses > 0 /\ ~cfg.d_tuple

\* the scenario of C13
Scenario13 ==
    /\ cfg.kind = "GANTrainer"
    /\ cfg.g_pretraining_epochs = 0
    /\ cfg.d_pretraining_epochs = 0
    /\ cfg.adversarail_training_epochs = 1
    /\ cfg.adversarail_d_epochs = 1
    /\ DPassRuns
    /\ ~cfg.g_tuple

\* C13 as stated: GANTrainer.fit with no pretraining, one adversarial epoch and
\* one discriminator epoch per round ends, unless a loss is NaN, by returning
\* (-1, None) after exactly one generator step, one discriminator pass and
\* one checkpoint.
C13_OneRoundScenario ==
    (Scenario13 /\ Ended) =>
        /\ pc = "done"
        /\ Count(trace, "g_step") = 1
        /\ Count(trace, "d_pass") = 1
        /\ Count(trace, "save") = 1
        /\ ret = Ret(Fin(-1, 1), NoResult)

\* every routine of the fit has data, scalar losses and at least one pass
Regular ==
    /\ DPassRuns
    /\ ~cfg.g_tuple
    /\ cfg.adversarail_d_epochs > 0
    /\ cfg.d_sample_training_epochs > 0

\* C14 as stated: an adversarial fit of any variant and any phase lengths in
\* which no loss is NaN does not raise: it ends by returning (-1, None) with
\* exactly one checkpoint, written last.
C14_AdversarialFitCompletes ==
    (IsGan /\ Regular /\ Ended) =>
        /\ pc = "done"
        /\ Count(trace, "save") = 1
        /\ Last(trace).ev = "save"
        /\ ret = Ret(Fin(-1, 1), NoResult)

\* C18 as stated: a GANTrainer fit that gets through its phases performs, in
\* each of the adversarail_training_epochs rounds, one generator step and then
\* adversarail_d_epochs discriminator passes.
C18_EveryRoundRuns ==
    (cfg.kind = "GANTrainer" /\ DPassRuns /\ Ended) =>
        /\ CountIn("g_step", TRUE) = cfg.adversarail_training_epochs
        /\ CountIn("d_pass", TRUE) =
              cfg.adversarail_training_epochs * cfg.adversarail_d_epochs

StepEvents == {"g_step", "d_step", "c_step", "d_pass"}

\* C19: in every adversarial fit the recorded steps come in the order
\* G-pretrain, D-pretrain, adversarial: no discriminator step or pass precedes
\* a pretraining generator step, no adversarial step precedes a pretraining
\* one, all g_pretraining_epochs * len(train_data) generator steps are done
\* before the first discriminator step, all d_pretraining_epochs discriminator
\* passes before the adversarial phase begins; and a step taken during
\* G-pretrain changes only the generator and its optimizer, one during
\* D-pretrain only the discriminator and its optimizer.
C19_TraceOrder ==
    IsGan =>
        /\ \A i \in 1..Len(trace) : \A j \in (i + 1)..Len(trace) :
              /\ ~(/\ trace[i].ev \in StepEvents /\ trace[i].flag
                    /\ trace[j].ev \in StepEvents /\ ~trace[j].flag)
              /\ ~(/\ trace[i].ev \in {"d_step", "d_pass"}
                    /\ trace[j].ev = "g_step"
                    /\ ~trace[j].flag)
        /\ \A i \in 1..Len(trace) :
              (trace[i].ev \in StepEvents /\ ~trace[i].flag) => trace[i].ev # "c_step"
        /\ (pc \notin {"idle", "g_head", "g_step", "aborted"}
             \/ Count(trace, "d_step") > 0) =>
              CountIn("g_step", FALSE) = cfg.g_pretraining_epochs * cfg.n_train
        /\ (gan.adv \/ pc \in {"a_head", "gan_save", "done", "evaluated"}) =>
              /\ CountIn("d_pass", FALSE) = cfg.d_pretraining_epochs
              /\ CountIn("d_step", FALSE) =
                    cfg.d_pretraining_epochs * DPasses * DPairs

C19_PhaseOrder ==
    /\ []C19_TraceOrder
    /\ [][ (IsGan /\ gen' = gen) =>
             /\ pc \in {"g_head", "g_step"} =>
                   /\ opt'.d_optimizer = opt.d_optimizer
                   /\ params'.d = params.d
                   /\ ~gan'.adv
             /\ (pc = "g_step" /\ pc' # "aborted") =>
                   opt'.g_optimizer = opt.g_optimizer + 1
             /\ (pc \in {"d_head", "dp_head", "d_step"} /\ ~gan.adv) =>
                   /\ opt'.g_optimizer = opt.g_optimizer
                   /\ params'.g = params.g
                   /\ ~gan'.adv
             /\ (pc = "d_step" /\ pc' # "aborted") =>
                   opt'.d_optimizer = opt.d_optimizer + 1
         ]_vars

C19_Witness ==
    /\ cfg.kind = "RankGANTrainer"
    /\ cfg.n_train = 2
    /\ pc = "ad_head"
    /\ CountIn("g_step", FALSE) = 2
    /\ CountIn("d_pass", FALSE) = 1
    /\ CountIn("d_step", FALSE) = 2
    /\ CountIn("g_step", TRUE) = 1
    /\ opt = [optimizer |-> 0, g_optimizer |-> 3, d_optimizer |-> 2]

\* C20 as stated: one discriminator pass of GANTrainer steps the discriminator
\* min(#real, #fake) * d_sample_training_epochs times and returns the mean of
\* the step losses, for every batch count, every d_sample_training_epochs and
\* scalar or tuple losses: the return of the pass does not raise.
C20_DiscriminatorPassReturns ==
    [][ (cfg.kind = "GANTrainer" /\ pc = "dp_head" /\ gan.pass >= DPasses) =>
            /\ gan.count = Min(cfg.n_real, cfg.n_fake) * cfg.d_sample_training_epochs
            /\ pc' # "aborted"
            /\ Last(trace') = EvF("d_pass", epoch_idx, gan.adv)
      ]_vars

\* the two strings are equal up to the case of their characters
EqIgnoreCase(a, b) ==
    /\ Len(a) = Len(b)
    /\ \A i \in 1..Len(a) : a[i] = b[i] \/ ToUpper(a[i]) = b[i] \/ a[i] = ToUpper(b[i])
Recognized(learner) ==
    \E k \in {Adam, Sgd, Adagrad, Rmsprop} : EqIgnoreCase(learner, k)

\* C15: for a learner string that is none of adam, sgd, adagrad, rmsprop up
\* to case, _build_optimizer returns one Adam optimizer and
\* _build_module_optimizer one Adam optimizer, or two for a generator split
\* into manager and worker parameters; the warning is logged and no error is
\* raised.  A recognized name gives its own class without a warning.
C15_UnknownLearnerIsAdam ==
    built.set =>
        /\ Len(built.result) = IF built.module = "LeakGANGenerator" THEN 2 ELSE 1
        /\ ~Recognized(built.learner) =>
              /\ \A i \in 1..Len(built.result) : built.result[i] = "Adam"
              /\ built.warned
        /\ Recognized(built.learner) =>
              /\ ~built.warned
              /\ \A i \in 1..Len(built.result) :
                    built.result[i] \in {"Adam", "SGD", "Adagrad", "RMSprop"}
              /\ \A i \in 1..Len(built.result) :
                    built.result[i] = "Adam" <=> EqIgnoreCase(built.learner, Adam)

C15_Witness ==
    /\ built.set
    /\ built.learner = <<"A", "d", "a", "m", "W">>
    /\ built.module = "LeakGANGenerator"
    /\ built.result = <<"Adam", "Adam">>
    /\ built.warned

\* the steps logged for network net, and the sum of part i of their losses,
\* taken from the log
StepsOf(net) == SelectSeq(ep.log, LAMBDA r : r.net = net)

RECURSIVE SumSeq(_)
SumSeq(s) ==
    IF Len(s) = 0 THEN Zero
    ELSE IF Len(s) = 1 THEN s[1]
    ELSE Add(SumSeq(SubSeq(s, 1, Len(s) - 1)), s[Len(s)])

PartSum(net, i) ==
    SumSeq([k \in 1..Len(StepsOf(net)) |-> StepsOf(net)[k].losses.parts[i]])

\* the routine is over, and not by a NaN loss
EpochOver == ep.pc \in {"returned", "raised"} /\ ep.error # "nan"

\* C21: with tuple losses of arity k on n >= 1 batches, the running total of
\* Trainer._train_epoch, Trainer._valid_epoch and GANTrainer._g_train_epoch is
\* at every step the part-by-part sum of the step losses, and unless a loss
\* is NaN the routine returns the tuple of the k sums, each divided by n.
C21_TupleMeans ==
    (/\ ep.routine \in {"_train_epoch", "_valid_epoch", "_g_train_epoch"}
     /\ ep.kind \in {"Trainer", "GANTrainer"}
     /\ ep.arity > 0
     /\ ep.n >= 1) =>
        /\ ep.total.some =>
              /\ ep.total.tuple
              /\ ep.total.parts = [i \in 1..ep.arity |-> PartSum(ep.log[1].net, i)]
        /\ EpochOver =>
              /\ ep.pc = "returned"
              /\ ep.result[1] =
                    Tuple([i \in 1..ep.arity |-> DivBy(PartSum(ep.log[1].net, i), ep.n)])

IsMaskAdv == ep.routine = "_adversarial_train_epoch"

\* C23: in MaskGANTrainer._adversarial_train_epoch no StopIteration leaves the
\* routine, for any number of training batches and any adversarail_d_epochs:
\* the discriminator micro-steps take the batches after the skipped first one
\* in order and start again from the first batch when the data is exhausted.
C23_NoStopIteration ==
    IsMaskAdv =>
        /\ ep.error # "stop_iteration"
        /\ \A k \in 1..Len(StepsOf("d")) : StepsOf("d")[k].batch = k % ep.n

\* C23 amended: with at least one training batch no StopIteration leaves
\* MaskGANTrainer._adversarial_train_epoch, for any adversarail_d_epochs: the
\* k-th discriminator micro-step takes batch k mod n, the data being started
\* again from its first batch each time it is exhausted.  With no training
\* batch the unguarded next() before the loop raises StopIteration.
C23_RestartsWhenExhausted ==
    (IsMaskAdv /\ ep.n >= 1) =>
        /\ ep.error # "stop_iteration"
        /\ \A k \in 1..Len(StepsOf("d")) : StepsOf("d")[k].batch = k % ep.n

C23_Witness ==
    /\ IsMaskAdv
    /\ ep.pc = "returned"
    /\ ep.n = 2
    /\ ep.adv_d = 1
    /\ Len(StepsOf("d")) = 2
    /\ StepsOf("d")[1].batch = 1
    /\ StepsOf("d")[2].batch = 0

\* what a step that passed the NaN check does, in MaskGANTrainer
MaskStepOps(retain) ==
    <<Op("check"), Op("zero_grad"), PartOp("backward", 0, retain), Op("clip"), Op("step")>>

\* C24: the log of MaskGANTrainer._adversarial_train_epoch is a sequence of
\* macro-steps, one per batch b of gen_train_data in order: adversarail_d_epochs
\* discriminator steps, then one generator step on batch b whose backward
\* retains the graph, then one critic step on batch b whose backward does
\* not; when the routine ends without a NaN loss it has run exactly one
\* macro-step per training batch.
C24_MacroStep ==
    IsMaskAdv =>
        LET per == ep.adv_d + 2
        IN  /\ \A p \in 1..Len(ep.log) :
                  LET q == (p - 1) % per
                      b == (p - 1) \div per
                      r == ep.log[p]
                      aborted == p = Len(ep.log) /\ ep.error = "nan"
                  IN  /\ q < ep.adv_d =>
                            /\ r.net = "d"
                            /\ ~aborted => r.ops = MaskStepOps(FALSE)
                      /\ q = ep.adv_d =>
                            /\ r.net = "g" /\ r.batch = b
                            /\ ~aborted => r.ops = MaskStepOps(TRUE)
                      /\ q = ep.adv_d + 1 =>
                            /\ r.net = "c" /\ r.batch = b
                            /\ ~aborted => r.ops = MaskStepOps(FALSE)
            /\ (EpochOver /\ ep.n >= 1) =>
                  /\ Len(ep.log) = ep.n * per
                  /\ ep.g_num = ep.n
                  /\ ep.d_num = ep.n * ep.adv_d

C24_Witness ==
    /\ IsMaskAdv
    /\ ep.pc = "returned"
    /\ ep.n = 2
    /\ ep.adv_d = 2
    /\ Len(ep.log) = 8
    /\ ep.log[7].net = "g"
    /\ ep.log[8].net = "c"
    /\ ep.log[8].batch = 1

\* C25: for scalar losses, every number of training batches >= 1 and every
\* adversarail_d_epochs >= 0, MaskGANTrainer._adversarial_train_epoch returns,
\* unless a loss is NaN, the three means: the sum of the discriminator losses
\* over n * adversarail_d_epochs, the sum of the generator losses over n and
\* the sum of the critic losses over n.
C25_ThreeMeans ==
    (IsMaskAdv /\ ep.arity = 0 /\ ep.n >= 1 /\ EpochOver) =>
        /\ ep.pc = "returned"
        /\ ep.result = <<Scalar(DivBy(PartSum("d", 1), ep.n * ep.adv_d)),
                         Scalar(DivBy(PartSum("g", 1), ep.n)),
                         Scalar(DivBy(PartSum("c", 1), ep.n))>>

IsGPretrain == ep.routine = "_g_train_epoch"

\* the step at position p of the log went past its NaN check
Stepped(p) == ~(p = Len(ep.log) /\ ep.error \in {"nan", "type_error"} /\
                Len(ep.log[p].ops) <= 1)

\* C26: a step of a generator split into manager and worker partitions, on a
\* tuple with one loss per partition, does for the partitions in order
\* zero_grad, backward of the partition's loss, step; the backward retains the
\* graph on every pass but the last, and the optimizer steps are as many as
\* the partitions.
C26_MultiStep ==
    (IsGPretrain /\ ep.kind = "GANTrainer" /\ ep.leak /\ ep.arity = Len(Partitions)) =>
        \A p \in 1..Len(ep.log) :
            Stepped(p) =>
                /\ ep.log[p].ops =
                      <<Op("check"),
                        PartOp("zero_grad", 1, FALSE), PartOp("backward", 1, TRUE),
                        PartOp("step", 1, FALSE),
                        PartOp("zero_grad", 2, FALSE), PartOp("backward", 2, FALSE),
                        PartOp("step", 2, FALSE)>>
                /\ Cardinality({k \in 1..Len(ep.log[p].ops) :
                                   ep.log[p].ops[k].op = "step"}) = Len(Partitions)

C26_Witness ==
    /\ IsGPretrain
    /\ ep.kind = "GANTrainer"
    /\ ep.leak
    /\ ep.arity = 2
    /\ ep.n = 2
    /\ ep.pc = "returned"
    /\ Len(ep.log) = 2
    /\ Len(ep.log[2].ops) = 7

\* C27: every generator step of _g_train_epoch, in GANTrainer and in
\* MaskGANTrainer and for a split generator as well, is the sequence NaN
\* check, gradient clipping, optimizer step: each optimizer step of a step
\* comes after the check and after a clip of that same step.
C27_ClipBeforeStep ==
    IsGPretrain =>
        \A p \in 1..Len(ep.log) :
            LET ops == ep.log[p].ops
            IN  /\ ops[1].op = "check"
                /\ Stepped(p) => \E k \in 1..Len(ops) : ops[k].op = "step"
                /\ \A k \in 1..Len(ops) :
                      ops[k].op = "step" =>
                          \E c \in 1..(k - 1) : ops[c].op = "clip"

\* validation is disabled by the arguments: no validation data, or eval_step <= 0
NoValidation == cfg.n_valid = 0 \/ cfg.eval_step <= 0
CurStepAtStart == IF gen = 2 /\ resumed THEN files[1].cur_step ELSE 0

MinScore(a, b) == IF Less(b, a) THEN b ELSE a
FitPcs == {"train", "save", "branch", "valid", "early"}

\* C29: during a base fit best_valid_score never increases: a validation
\* point sets it to the minimum of its old value and the validation loss of
\* that point (so it is the minimum of its value at the start of fit and of
\* all validation losses seen so far), it changes only when that loss is
\* strictly smaller, and no other step of fit changes it.
C29_BestIsRunningMin ==
    [][ (IsBase /\ pc \in FitPcs \cup {"idle"} /\ pc' \in FitPcs \cup {"done", "aborted"}) =>
            LET valid_score == DivBy(valid_total, cfg.n_valid)
            IN  /\ pc = "early" =>
                      /\ best_valid_score' = MinScore(best_valid_score, valid_score)
                      /\ best_valid_score' # best_valid_score =>
                            Less(valid_score, best_valid_score)
                /\ pc # "early" => best_valid_score' = best_valid_score
                /\ ~Less(best_valid_score, best_valid_score')
      ]_vars

C29_Witness ==
    /\ IsBase
    /\ pc = "train"
    /\ best_valid_score = Fin(9, 1)
    /\ Count(trace, "check") = 3
    /\ \E i \in 1..Len(trace) : trace[i].ev = "check" /\ ~trace[i].flag

\* validation points since the last improving one
RECURSIVE Misses(_)
Misses(tr) ==
    IF Len(tr) = 0 THEN 0
    ELSE IF Last(tr).ev # "check" THEN Misses(SubSeq(tr, 1, Len(tr) - 1))
    ELSE IF Last(tr).flag THEN 0
    ELSE Misses(SubSeq(tr, 1, Len(tr) - 1)) + 1

\* C30: in a fresh base trainer with stopping_step > 0, cur_step is in every
\* state the number of validation points since the last improving one (a
\* non-improving point adds exactly 1, an improving one resets it to 0) and
\* lies between 0 and stopping_step.
C30_PatienceCounter ==
    (IsBase /\ ~resumed /\ cfg.stopping_step > 0) =>
        /\ 0 <= cur_step
        /\ cur_step <= cfg.stopping_step
        /\ cur_step = Misses(trace)

C30_Witness ==
    /\ IsBase
    /\ ~resumed
    /\ cfg.stopping_step = 2
    /\ cur_step = 2
    /\ pc = "done"
    /\ Last(trace).ev = "stop"
    /\ Improved

\* C31: in every state of a base trainer, resumed ones included,
\* best_valid_result is None only while best_valid_score is the sentinel, and
\* otherwise is the result of the validation epoch whose score is
\* best_valid_score.
C31_ResultMatchesScore ==
    IsBase =>
        /\ (best_valid_result = NoResult) => (best_valid_score = Sentinel)
        /\ (best_valid_result # NoResult) => (best_valid_result = Ppl(best_valid_score))

\* the same without resume_checkpoint
C31_FreshResultMatchesScore ==
    (IsBase /\ ~resumed) =>
        /\ (best_valid_result = NoResult) => (best_valid_score = Sentinel)
        /\ (best_valid_result # NoResult) => (best_valid_result = Ppl(best_valid_score))

\* a call of fit is under way / has ended
FitRunning == pc \notin {"idle", "done", "aborted", "evaluated"}
FitOver == pc \in {"done", "aborted"}
\* a call of MaskGANTrainer._adversarial_train_epoch is under way / has ended
EpochRunning == IsMaskAdv /\ ep.pc \in {"call", "g_x", "d", "g", "c"}
EpochEnded == ep.pc \in {"returned", "raised"}

\* optimizer steps of the adversarial phase so far
AdvSteps == CountIn("g_step", TRUE) + CountIn("d_step", TRUE) + CountIn("c_step", TRUE)

\* the first _adversarial_train_epoch of the fit got to its return statement
\* (in every variant the fit then ends with an exception, raised by that
\* statement or by the first statement of fit after it)
AtAdvReturn ==
    /\ IsGan /\ gan.adv
    /\ pc = "aborted" /\ error \in FitErrors
    /\ IF cfg.kind = "MaskGANTrainer" THEN gan.k = cfg.n_train
       ELSE gan.d_epoch = cfg.adversarail_d_epochs

\* batches the generator is stepped on in one adversarial epoch
GenBatches ==
    IF cfg.kind = "MaskGANTrainer" THEN cfg.n_train
    ELSE IF cfg.kind = "TextGANTrainer" THEN cfg.n_real
    ELSE 1

\* discriminator steps of one pass of _d_train_epoch
PassBatches ==
    IF cfg.kind = "TextGANTrainer" THEN cfg.n_real ELSE Min(cfg.n_real, cfg.n_fake)

====
